---- MODULE Spec2Model ----
(***************************************************************************)
(* E-commerce data pipeline: synthetic data generator (data_generator.py), *)
(* SQLite loader (database_loader.py), analytics queries (queries.py), the *)
(* batch entry point (main.py) and the dashboard (dashboard.py).           *)
(*                                                                         *)
(* Conventions of the model                                                *)
(*  - a DataFrame / CSV file / SQL table is a sequence of records (rows);  *)
(*  - money is an integer number of cents, so round(x, 2) of a sum or a    *)
(*    product of two-decimal values is the exact cents value;              *)
(*  - a calendar date is a day number; the '%Y-%m-%d' string that          *)
(*    strftime writes is the triple <<year, month, day>>, and comparing    *)
(*    two such zero-padded strings is comparing the triples                *)
(*    lexicographically;                                                   *)
(*  - every call of random.* / fake.* takes its outcome from a raw draw    *)
(*    (a natural number) that the caller supplies; the generator reduces   *)
(*    it to the range of the call.  The nondeterministic specifications    *)
(*    let the raw draws range over every value, the seeded specification   *)
(*    takes them from the stream of a seeded pseudo-random generator.      *)
(*  - the free-text columns (name, review_text) carry no constraint that   *)
(*    is checked here and are left out of the rows.                        *)
(***************************************************************************)
EXTENDS Integers, Sequences, FiniteSets, TLC

VARIABLES
    \* the in-memory tables of the generator and the last generator that returned
    users_df, products_df, orders_df, order_items_df, reviews_df, done,
    \* the five flat files under data/ and the database file ecommerce.db
    files, store,
    \* how the last load_to_sqlite call ended ("none", "ok", "raised"), the
    \* store it started from, the store the first call left, the calls made
    loadStatus, priorStore, firstStore, loads,
    \* what the last query call since the last load returned
    result,
    \* the states of the two seeded generators of the process (fake and random),
    \* and the flat files the first generate_data call wrote
    rng, firstFiles,
    \* the batch process running main() of main.py: the stages it has called,
    \* what it printed and how it exited
    main,
    \* what the last script run of the dashboard rendered
    dash

genVars == <<users_df, products_df, orders_df, order_items_df, reviews_df, done>>

loadVars == <<files, store, loadStatus, priorStore, firstStore, loads, result>>

seedVars == <<rng, firstFiles>>

appVars == <<main, dash>>

vars == <<genVars, loadVars, seedVars, appVars>>

----------------------------------------------------------------------------
(* Bounds of the model *)

\* num_users of generate_users (100 in generate_data)
NumUsers == 2
\* num_products of generate_products (50 in generate_data)
NumProducts == 2
\* num_orders of generate_orders (200 in generate_data)
NumOrders == 2
\* num_reviews of generate_reviews (150 in generate_data)
NumReviews == 1
\* day number of 'today'; day 0 is '-2y'
MaxDay == 2
\* upper end of num_items_per_order_range ((1, 5) by default)
MaxItems == 2
\* load_to_sqlite calls in one run of the model
MaxLoads == 2
\* largest limit passed to get_top_users_by_spending
MaxLimit == 2
\* most rows of an orders flat file given to the queries
MaxStoreOrders == 3

\* order items in the store of the product sales query
MaxStoreItems == 3
\* generate_data calls of the dashboard process before the first step
MaxEarlierCalls == 2
\* random.randint(1, 5): the largest quantity of an order item
MaxQuantity == 5
\* random.randint(1, 5): the largest rating of a review
MaxRating == 5

\* the pool fake.email() draws from
Emails == <<"a@example.org", "b@example.org">>
\* sample values of round(random.uniform(10.0, 500.0), 2), in cents
Prices == <<1000, 2599>>

\* two of the eight categories of generate_products
Categories == <<"Electronics", "Books">>
\* sample values of round(random.uniform(25.0, 1000.0), 2), in cents
Estimates == <<2500, 99999>>

Today == MaxDay
TwoYearsAgo == 0
\* day number of '-1y'
OneYearAgo == MaxDay \div 2

----------------------------------------------------------------------------
(* Library functions the generator calls *)

\* date.strftime('%Y-%m-%d'): day 0 is 2024-12-31, day n >= 1 is 2025-01-n
strftime(day) ==
    IF day = 0 THEN <<2024, 12, 31>> ELSE <<2025, 1, day>>

\* datetime.strptime(s, '%Y-%m-%d')
strptime(s) ==
    IF s[1] = 2024 THEN 0 ELSE s[3]

\* s <= t for two '%Y-%m-%d' strings (character by character)
StrLeq(s, t) ==
    \/ s[1] < t[1]
    \/ s[1] = t[1] /\ s[2] < t[2]
    \/ s[1] = t[1] /\ s[2] = t[2] /\ s[3] <= t[3]

\* Series.max() of a non-empty column of strings
StrMax(col) ==
    CHOOSE s \in {col[i] : i \in DOMAIN col} :
        \A i \in DOMAIN col : StrLeq(col[i], s)

\* fake.date_between(start_date, end_date): a day in [start, end]
date_between(start, end, raw) ==
    IF end <= start THEN start ELSE start + (raw % (end - start + 1))

\* random.randint(a, b)
randint(a, b, raw) == a + (raw % (b - a + 1))

\* random.choice(seq) of a non-empty list
choice(seq, raw) == seq[1 + (raw % Len(seq))]

\* the list without its k-th element
RemoveAt(seq, k) ==
    [i \in 1..(Len(seq) - 1) |-> IF i < k THEN seq[i] ELSE seq[i + 1]]

\* k elements drawn with replacement (random.choices)
sample_with_replacement(population, k, raws) ==
    [j \in 1..k |-> choice(population, raws[j])]

RECURSIVE sample(_, _, _)
\* random.sample(population, k): k distinct elements, in the order drawn
sample(population, k, raws) ==
    IF k = 0 THEN <<>>
    ELSE LET at == 1 + (raws[1] % Len(population))
         IN  <<population[at]>> \o sample(RemoveAt(population, at), k - 1, Tail(raws))

Min(a, b) == IF a <= b THEN a ELSE b

\* df[col].tolist()
Column(df, col) == [i \in DOMAIN df |-> df[i][col]]

\* df[df[col] == v]: the rows whose column equals v, in order
RECURSIVE RowsWhere(_, _, _)
RowsWhere(df, col, v) ==
    IF df = <<>> THEN <<>>
    ELSE IF Head(df)[col] = v THEN <<Head(df)>> \o RowsWhere(Tail(df), col, v)
         ELSE RowsWhere(Tail(df), col, v)

\* a finite set of numbers as an ascending list
RECURSIVE SetToSeq(_)
SetToSeq(S) ==
    IF S = {} THEN <<>>
    ELSE LET m == CHOOSE x \in S : \A y \in S : x <= y
         IN  <<m>> \o SetToSeq(S \ {m})

RECURSIVE SumSeq(_)
SumSeq(s) == IF s = <<>> THEN 0 ELSE Head(s) + SumSeq(Tail(s))

----------------------------------------------------------------------------
(* data_generator.py *)

\* fake.email()
fake_email(raw) == choice(Emails, raw)

generate_users(num_users, c) ==
    [i \in 1..num_users |->
        [id |-> i,
         email |-> fake_email(c[i].email),
         signup_date |-> strftime(date_between(TwoYearsAgo, Today, c[i].signup))]]

generate_products(num_products, c) ==
    [i \in 1..num_products |->
        [id |-> i,
         category |-> choice(Categories, c[i].category),
         price |-> choice(Prices, c[i].price)]]

\* generate_orders drawing the order date from the whole '-2y' window
generate_orders_any_date(users, num_orders, c) ==
    LET user_ids == Column(users, "id")
    IN  [i \in 1..num_orders |->
            [id |-> i,
             user_id |-> choice(user_ids, c[i].user),
             order_date |-> strftime(date_between(TwoYearsAgo, Today, c[i].date)),
             total_amount |-> choice(Estimates, c[i].total)]]

\* generate_orders taking the id after the drawn user's id as user_id
generate_orders_any_user_id(users, num_orders, c) ==
    [i \in 1..num_orders |->
        [id |-> i,
         user_id |-> choice(Column(users, "id"), c[i].user) + 1,
         order_date |-> strftime(date_between(TwoYearsAgo, Today, c[i].date)),
         total_amount |-> choice(Estimates, c[i].total)]]

generate_orders(users, num_orders, c) ==
    LET user_ids == Column(users, "id")
    IN  [i \in 1..num_orders |->
            LET user_id == choice(user_ids, c[i].user)
                user_signup == strptime(RowsWhere(users, "id", user_id)[1].signup_date)
                order_date == date_between(user_signup, Today, c[i].date)
            IN  [id |-> i,
                 user_id |-> user_id,
                 order_date |-> strftime(order_date),
                 total_amount |-> choice(Estimates, c[i].total)]]

\* the order table left as generate_orders returned it
UpdateTotalSkipped(orders, id, order_total) == orders

\* orders_df.loc[orders_df['id'] == id, 'total_amount'] = round(order_total, 2)
UpdateTotal(orders, id, order_total) ==
    [i \in DOMAIN orders |->
        IF orders[i].id = id THEN [orders[i] EXCEPT !.total_amount = order_total]
        ELSE orders[i]]

\* the date of the user's first order instead of the latest
FirstOrderDate(user_orders) ==
    strptime(user_orders[1].order_date)

\* datetime.strptime(user_orders['order_date'].max(), '%Y-%m-%d')
LatestOrderDate(user_orders) ==
    strptime(StrMax(Column(user_orders, "order_date")))

\* the loop of generate_order_items from the k-th order on; items holds the
\* order items appended so far (item_id = Len(items) + 1)
RECURSIVE ItemsLoop(_, _, _, _, _, _)
ItemsLoop(k, orders, products, range, c, items) ==
    IF k > Len(orders) THEN [order_items |-> items, orders |-> orders]
    ELSE LET order == orders[k]
             product_ids == Column(products, "id")
             num_items == randint(range[1], range[2], c[k].n)
             selected_products ==
                 sample(product_ids, Min(num_items, Len(product_ids)), c[k].picks)
             new == [j \in 1..Len(selected_products) |->
                        LET product == RowsWhere(products, "id", selected_products[j])[1]
                            quantity == randint(1, MaxQuantity, c[k].qty[j])
                        IN  [id |-> Len(items) + j,
                             order_id |-> order.id,
                             product_id |-> selected_products[j],
                             quantity |-> quantity,
                             subtotal |-> product.price * quantity]]
             order_total == SumSeq(Column(new, "subtotal"))
         IN  ItemsLoop(k + 1, UpdateTotal(orders, order.id, order_total),
                       products, range, c, items \o new)

generate_order_items(orders, products, range, c) ==
    ItemsLoop(1, orders, products, range, c, <<>>)

\* generate_reviews drawing the product from the whole catalog
generate_reviews_any_product(users, products, orders, order_items, num_reviews, c) ==
    LET ordered_users == SetToSeq({orders[i].user_id : i \in DOMAIN orders})
    IN  [i \in 1..num_reviews |->
            LET user_id == choice(ordered_users, c[i].user)
                user_orders == RowsWhere(orders, "user_id", user_id)
            IN  [id |-> i,
                 user_id |-> user_id,
                 product_id |-> choice(Column(products, "id"), c[i].product),
                 rating |-> randint(1, MaxRating, c[i].rating),
                 review_date |->
                     strftime(date_between(LatestOrderDate(user_orders), Today, c[i].date))]]

\* generate_reviews drawing the reviewer from all users
generate_reviews_any_user(users, products, orders, order_items, num_reviews, c) ==
    LET ordered_products == SetToSeq({order_items[i].product_id : i \in DOMAIN order_items})
    IN  [i \in 1..num_reviews |->
            LET user_id == choice(Column(users, "id"), c[i].user)
                user_orders == RowsWhere(orders, "user_id", user_id)
                review_date ==
                    IF user_orders # <<>>
                    THEN date_between(LatestOrderDate(user_orders), Today, c[i].date)
                    ELSE date_between(OneYearAgo, Today, c[i].date)
            IN  [id |-> i,
                 user_id |-> user_id,
                 product_id |-> choice(ordered_products, c[i].product),
                 rating |-> randint(1, MaxRating, c[i].rating),
                 review_date |-> strftime(review_date)]]

generate_reviews(users, products, orders, order_items, num_reviews, c) ==
    LET ordered_products == SetToSeq({order_items[i].product_id : i \in DOMAIN order_items})
        ordered_users == SetToSeq({orders[i].user_id : i \in DOMAIN orders})
    IN  [i \in 1..num_reviews |->
            LET user_id == choice(ordered_users, c[i].user)
                product_id == choice(ordered_products, c[i].product)
                user_orders == RowsWhere(orders, "user_id", user_id)
                review_date ==
                    IF user_orders # <<>>
                    THEN date_between(LatestOrderDate(user_orders), Today, c[i].date)
                    ELSE date_between(OneYearAgo, Today, c[i].date)
            IN  [id |-> i,
                 user_id |-> user_id,
                 product_id |-> product_id,
                 rating |-> randint(1, MaxRating, c[i].rating),
                 review_date |-> strftime(review_date)]]

----------------------------------------------------------------------------
(* database_loader.py *)

\* the five tables, in the order load_to_sqlite loads them
LoadOrder == <<"users", "products", "orders", "order_items", "reviews">>

\* a flat file with these rows, and a flat file that does not exist
FlatFile(rows) == [exists |-> TRUE, rows |-> rows]

MissingFile == [exists |-> FALSE, rows |-> <<>>]

\* an empty data/ directory
NoFiles ==
    [users |-> MissingFile, products |-> MissingFile, orders |-> MissingFile,
     order_items |-> MissingFile, reviews |-> MissingFile]

\* no database file
NoStore ==
    [kind |-> "absent", users |-> <<>>, products |-> <<>>, orders |-> <<>>,
     order_items |-> <<>>, reviews |-> <<>>]

\* PRAGMA foreign_keys of the connection sqlite3.connect returns: SQLite leaves
\* foreign-key enforcement off unless the connection turns it on, and
\* load_to_sqlite never does
foreign_keys == FALSE

\* os.path.exists(db_name) / the file sqlite3.connect opens
Exists(db) == db.kind # "absent"

\* the existing database file kept
KeepExisting(db) == db

\* if os.path.exists(db_name): os.remove(db_name)
RemoveExisting(db) == NoStore

\* CREATE TABLE IF NOT EXISTS for the five tables; the sqlite3 module runs
\* DDL outside any transaction, so the schema is durable at once
create_schema(db) == [db EXCEPT !.kind = "schema"]

\* no two rows agree on the column
Unique(rows, col) ==
    \A i, j \in DOMAIN rows : rows[i][col] = rows[j][col] => i = j

\* some row of the table has this id
HasId(rows, id) == \E i \in DOMAIN rows : rows[i].id = id

\* PRIMARY KEY, UNIQUE and CHECK constraints of create_schema on the rows of
\* one table
ConstraintsHold(table, rows) ==
    /\ Unique(rows, "id")
    /\ table = "users" => Unique(rows, "email")
    /\ table = "products" => \A i \in DOMAIN rows : rows[i].price > 0
    /\ table = "orders" => \A i \in DOMAIN rows : rows[i].total_amount >= 0
    /\ table = "order_items" =>
           \A i \in DOMAIN rows : rows[i].quantity > 0 /\ rows[i].subtotal >= 0
    /\ table = "reviews" =>
           \A i \in DOMAIN rows : rows[i].rating >= 1 /\ rows[i].rating <= 5

\* FOREIGN KEY clauses of create_schema on the rows of one table
ReferencesResolve(db, table, rows) ==
    /\ table = "orders" => \A i \in DOMAIN rows : HasId(db.users, rows[i].user_id)
    /\ table = "order_items" =>
           \A i \in DOMAIN rows :
               /\ HasId(db.orders, rows[i].order_id)
               /\ HasId(db.products, rows[i].product_id)
    /\ table = "reviews" =>
           \A i \in DOMAIN rows :
               /\ HasId(db.users, rows[i].user_id)
               /\ HasId(db.products, rows[i].product_id)

\* whether the INSERTs of df.to_sql succeed
InsertAccepted(db, table, rows) ==
    /\ ConstraintsHold(table, rows)
    /\ foreign_keys => ReferencesResolve(db, table, rows)

\* load_csv_to_table: FileNotFoundError for a missing file; otherwise DELETE
\* and the INSERTs of to_sql run in one transaction, which to_sql commits on
\* success and rolls back on an IntegrityError
load_csv_to_table(db, csvs, table) ==
    IF ~csvs[table].exists THEN [raised |-> TRUE, db |-> db]
    ELSE IF InsertAccepted(db, table, csvs[table].rows)
         THEN [raised |-> FALSE, db |-> [db EXCEPT ![table] = csvs[table].rows]]
         ELSE [raised |-> TRUE, db |-> db]

\* the five load_csv_to_table calls from the k-th on; the first exception
\* ends the try block
RECURSIVE LoadTables(_, _, _)
LoadTables(db, csvs, k) ==
    IF k > Len(LoadOrder) THEN [raised |-> FALSE, db |-> db]
    ELSE LET r == load_csv_to_table(db, csvs, LoadOrder[k])
         IN  IF r.raised THEN r ELSE LoadTables(r.db, csvs, k + 1)

\* load_to_sqlite: remove the file, connect, create the schema, load the five
\* tables, create the indexes and commit; on an exception conn.rollback()
\* finds nothing left to undo and the exception is raised again
load_to_sqlite(db, csvs) ==
    LoadTables(create_schema(IF Exists(db) THEN RemoveExisting(db) ELSE db), csvs, 1)

----------------------------------------------------------------------------
(* queries.py *)

\* the orders the join users u INNER JOIN orders o ON u.id = o.user_id pairs
\* with one user
OrdersOfUser(db, user_id) == RowsWhere(db.orders, "user_id", user_id)

\* one row per group of GROUP BY u.id, u.name, u.email: COUNT(DISTINCT o.id)
\* and ROUND(SUM(o.total_amount), 2)
TopUsersGroups(db) ==
    {[email |-> db.users[u].email,
      total_orders |->
          Cardinality({o.id : o \in {OrdersOfUser(db, db.users[u].id)[k] :
                                  k \in DOMAIN OrdersOfUser(db, db.users[u].id)}}),
      total_spent |-> SumSeq(Column(OrdersOfUser(db, db.users[u].id), "total_amount"))] :
        u \in {u \in DOMAIN db.users : OrdersOfUser(db, db.users[u].id) # <<>>}}

\* ORDER BY total_spent ASC
SortedAsc(rows) ==
    \A i, j \in DOMAIN rows : i < j => rows[i].total_spent <= rows[j].total_spent

\* ORDER BY total_spent DESC
SortedDesc(rows) ==
    \A i, j \in DOMAIN rows : i < j => rows[i].total_spent >= rows[j].total_spent

\* the orders in which ORDER BY may return the groups: rows of equal
\* total_spent come in any order
Orderings(groups) ==
    {p \in [1..Cardinality(groups) -> groups] :
        /\ \A g \in groups : \E i \in DOMAIN p : p[i] = g
        /\ SortedDesc(p)}

\* LIMIT ? with a non-negative limit
Limit(rows, limit) == SubSeq(rows, 1, Min(limit, Len(rows)))

\* the row sets get_top_users_by_spending may return on a database with the schema
get_top_users_by_spending(db, limit) ==
    {Limit(p, limit) : p \in Orderings(TopUsersGroups(db))}

\* the rows of a sequence as a set
Rows(seq) == {seq[i] : i \in DOMAIN seq}

\* the order items the join products p INNER JOIN order_items oi
\* ON p.id = oi.product_id pairs with one product
ItemsOfProduct(db, product_id) == RowsWhere(db.order_items, "product_id", product_id)

\* one row per group of GROUP BY p.id, p.name, p.category: COUNT(oi.id),
\* SUM(oi.quantity) and ROUND(SUM(oi.subtotal), 2); product stands for the
\* product_name column of the group
ProductSalesGroups(db) ==
    {[product |-> db.products[p].id,
      category |-> db.products[p].category,
      times_ordered |-> Len(ItemsOfProduct(db, db.products[p].id)),
      total_quantity_sold |->
          SumSeq(Column(ItemsOfProduct(db, db.products[p].id), "quantity")),
      total_revenue |->
          SumSeq(Column(ItemsOfProduct(db, db.products[p].id), "subtotal"))] :
        p \in {p \in DOMAIN db.products : ItemsOfProduct(db, db.products[p].id) # <<>>}}

\* ORDER BY col ASC: the orders in which the groups may be returned
RECURSIVE AscendingBy(_, _)
AscendingBy(groups, col) ==
    IF groups = {} THEN {<<>>}
    ELSE UNION {{<<g>> \o p : p \in AscendingBy(groups \ {g}, col)} :
                   g \in {h \in groups : \A x \in groups : h[col] <= x[col]}}

\* ORDER BY col DESC: the orders in which the groups may be returned; rows of
\* equal col come in any order
RECURSIVE DescendingBy(_, _)
DescendingBy(groups, col) ==
    IF groups = {} THEN {<<>>}
    ELSE UNION {{<<g>> \o p : p \in DescendingBy(groups \ {g}, col)} :
                   g \in {h \in groups : \A x \in groups : h[col] >= x[col]}}

\* LIMIT 10 of get_product_sales_summary
ProductSalesLimit == 10

\* the row sets get_product_sales_summary may return on a database with the schema
get_product_sales_summary(db) ==
    {Limit(p, ProductSalesLimit) : p \in DescendingBy(ProductSalesGroups(db), "total_revenue")}

\* the reviews the join products p INNER JOIN reviews r ON p.id = r.product_id
\* pairs with the products of one category
ReviewsOfCategory(db, category) ==
    SelectSeq(db.reviews,
              LAMBDA r : \E p \in DOMAIN db.products :
                            /\ db.products[p].id = r.product_id
                            /\ db.products[p].category = category)

\* ROUND(AVG(rating), 2) in hundredths
RoundedAverage(ratings) == (200 * SumSeq(ratings) + Len(ratings)) \div (2 * Len(ratings))

\* one row per group of GROUP BY p.category: COUNT(r.id) and ROUND(AVG(r.rating), 2)
CategoryRatingGroups(db) ==
    {[category |-> category,
      total_reviews |-> Len(ReviewsOfCategory(db, category)),
      average_rating |-> RoundedAverage(Column(ReviewsOfCategory(db, category), "rating"))] :
        category \in {db.products[p].category :
                         p \in {q \in DOMAIN db.products :
                                   ReviewsOfCategory(db, db.products[q].category) # <<>>}}}

\* the row sets get_average_rating_by_category may return on a database with
\* the schema
get_average_rating_by_category(db) ==
    DescendingBy(CategoryRatingGroups(db), "average_rating")

NoResult == [query |-> "none", limit |-> 0, error |-> FALSE, rows |-> <<>>]

----------------------------------------------------------------------------
(* The seeded generators.  A linear congruential generator of full period  *)
(* stands for the Mersenne Twister: what matters is that the stream is a    *)
(* function of the seed and that every draw moves the generator on.         *)

\* Faker.seed(42) / random.seed(42)
Seed == 42

\* the modulus of the generator state
RngModulus == 64

\* the state after one draw
RngStep(s) == (37 * s + 11) % RngModulus

\* the state after k draws
RECURSIVE RngAfter(_, _)
RngAfter(s, k) == IF k = 0 THEN s ELSE RngAfter(RngStep(s), k - 1)

\* the k-th raw draw from state s on
Draw(s, k) == RngAfter(s, k) \div 4

\* Faker.seed(42) and random.seed(42), run when data_generator is imported
SeededRng == [fake |-> Seed, random |-> Seed]

\* no generate_data call yet
NoFirstFiles == [written |-> FALSE, files |-> NoFiles]

\* save_to_csv: the rows of the DataFrame, one line each, in order
save_to_csv(df) == FlatFile(df)

----------------------------------------------------------------------------
(* The raw draws of one call of each generator *)

UserChoices(n) ==
    [1..n -> [signup : 0..MaxDay, email : 0..(Len(Emails) - 1)]]

ProductChoices(n) ==
    [1..n -> [category : 0..(Len(Categories) - 1), price : 0..(Len(Prices) - 1)]]

OrderChoices(n, nUsers) ==
    [1..n -> [user : 0..(nUsers - 1), date : 0..MaxDay,
              total : 0..(Len(Estimates) - 1)]]

\* one order's draws: the number of items, then one pick and one quantity
\* per selected product
ItemChoice(range, nProducts) ==
    UNION {{[n |-> n0, picks |-> p, qty |-> q] :
               p \in [1..Min(randint(range[1], range[2], n0), nProducts)
                         -> 0..(nProducts - 1)],
               q \in [1..Min(randint(range[1], range[2], n0), nProducts)
                         -> 0..(MaxQuantity - 1)]} :
           n0 \in 0..(range[2] - range[1])}

ItemChoices(nOrders, range, nProducts) ==
    [1..nOrders -> ItemChoice(range, nProducts)]

ReviewChoices(n, nUsers, nProducts) ==
    [1..n -> [user : 0..(nUsers - 1), product : 0..(nProducts - 1),
              date : 0..MaxDay, rating : 0..(MaxRating - 1)]]

\* generate_data's num_items_per_order_range, (1, 5) by default
ItemsRange == <<1, MaxItems>>

----------------------------------------------------------------------------
(* The generator functions as operations on the in-memory tables.  done   *)
(* names the last function that returned: generate_data calls the five    *)
(* generators once each, in this order.                                   *)

GenerateUsers ==
    /\ done = "start"
    /\ \E c \in UserChoices(NumUsers) :
           users_df' = generate_users(NumUsers, c)
    /\ done' = "generate_users"
    /\ UNCHANGED <<products_df, orders_df, order_items_df, reviews_df, loadVars, seedVars, appVars>>

GenerateProducts ==
    /\ done = "generate_users"
    /\ \E c \in ProductChoices(NumProducts) :
           products_df' = generate_products(NumProducts, c)
    /\ done' = "generate_products"
    /\ UNCHANGED <<users_df, orders_df, order_items_df, reviews_df, loadVars, seedVars, appVars>>

\* random.choice raises IndexError on an empty user list
GenerateOrders ==
    /\ done = "generate_products"
    /\ users_df # <<>>
    /\ \E c \in OrderChoices(NumOrders, Len(users_df)) :
           orders_df' = generate_orders(users_df, NumOrders, c)
    /\ done' = "generate_orders"
    /\ UNCHANGED <<users_df, products_df, order_items_df, reviews_df, loadVars, seedVars, appVars>>

GenerateOrderItems ==
    /\ done = "generate_orders"
    /\ \E c \in ItemChoices(Len(orders_df), ItemsRange, Len(products_df)) :
           LET r == generate_order_items(orders_df, products_df, ItemsRange, c)
           IN  /\ order_items_df' = r.order_items
               /\ orders_df' = r.orders
    /\ done' = "generate_order_items"
    /\ UNCHANGED <<users_df, products_df, reviews_df, loadVars, seedVars, appVars>>

\* random.choice raises IndexError when no order or no order item exists
GenerateReviews ==
    /\ done = "generate_order_items"
    /\ orders_df # <<>>
    /\ order_items_df # <<>>
    /\ \E c \in ReviewChoices(NumReviews, Len(users_df), Len(products_df)) :
           reviews_df' = generate_reviews(users_df, products_df, orders_df,
                                          order_items_df, NumReviews, c)
    /\ done' = "generate_reviews"
    /\ UNCHANGED <<users_df, products_df, orders_df, order_items_df, loadVars, seedVars, appVars>>

----------------------------------------------------------------------------
(* generate_data on the seeded generators *)

\* draws of fake.* and of random.* in one generate_data call
FakeDraws == 2 * NumUsers + NumOrders + NumReviews

RandomDraws ==
    2 * NumProducts + 2 * NumOrders + NumOrders * (1 + 2 * MaxItems) + 3 * NumReviews

\* the raw draws generate_data takes from the generators in state r, in the
\* order of the calls
SeededChoices(r) ==
    LET F(k) == Draw(r.fake, k)
        R(k) == Draw(r.random, k)
        itemsBase(k) == 2 * NumProducts + 2 * NumOrders + (k - 1) * (1 + 2 * MaxItems)
        reviewsBase == 2 * NumProducts + 2 * NumOrders + NumOrders * (1 + 2 * MaxItems)
    IN  [users |-> [i \in 1..NumUsers |->
                       [signup |-> F(2 * i - 1), email |-> F(2 * i)]],
         products |-> [i \in 1..NumProducts |->
                          [category |-> R(2 * i - 1), price |-> R(2 * i)]],
         orders |-> [i \in 1..NumOrders |->
                        [user |-> R(2 * NumProducts + 2 * i - 1),
                         date |-> F(2 * NumUsers + i),
                         total |-> R(2 * NumProducts + 2 * i)]],
         order_items |-> [k \in 1..NumOrders |->
                             [n |-> R(itemsBase(k) + 1),
                              picks |-> [j \in 1..MaxItems |-> R(itemsBase(k) + 1 + j)],
                              qty |-> [j \in 1..MaxItems |->
                                          R(itemsBase(k) + 1 + MaxItems + j)]]],
         reviews |-> [i \in 1..NumReviews |->
                         [user |-> R(reviewsBase + 3 * i - 2),
                          product |-> R(reviewsBase + 3 * i - 1),
                          date |-> F(2 * NumUsers + NumOrders + i),
                          rating |-> R(reviewsBase + 3 * i)]]]

\* generate_data: the five generators in turn, then the five flat files
generate_data(c) ==
    LET users == generate_users(NumUsers, c.users)
        products == generate_products(NumProducts, c.products)
        orders == generate_orders(users, NumOrders, c.orders)
        r == generate_order_items(orders, products, ItemsRange, c.order_items)
        reviews == generate_reviews(users, products, r.orders, r.order_items,
                                    NumReviews, c.reviews)
    IN  [users |-> save_to_csv(users),
         products |-> save_to_csv(products),
         orders |-> save_to_csv(r.orders),
         order_items |-> save_to_csv(r.order_items),
         reviews |-> save_to_csv(reviews)]

\* a new process imports data_generator: a batch run of main.py, or the
\* dashboard starting
ImportDataGenerator ==
    /\ rng' = SeededRng
    /\ UNCHANGED <<firstFiles, loadVars, genVars, appVars>>

\* the generators keep the state the call left them in
KeepRng(r) ==
    [fake |-> RngAfter(r.fake, FakeDraws), random |-> RngAfter(r.random, RandomDraws)]

\* generate_data(), called by main() of main.py and by regenerate_all_data
GenerateData ==
    /\ files' = generate_data(SeededChoices(rng))
    /\ rng' = KeepRng(rng)
    /\ firstFiles' = IF firstFiles.written THEN firstFiles
                      ELSE [written |-> TRUE, files |-> files']
    /\ UNCHANGED <<store, loadStatus, priorStore, firstStore, loads, result, genVars, appVars>>

----------------------------------------------------------------------------
(* Input tables of the per-function specifications: tables the earlier    *)
(* generators return.                                                     *)

\* users that all signed up on day 0, with distinct emails as far as the pool goes
EarlyUsers(n) ==
    generate_users(n, [i \in 1..n |-> [signup |-> 0, email |-> i - 1]])

\* the user tables generate_users returns, over every signup date
UsersInputs ==
    {generate_users(NumUsers, c) :
        c \in {d \in UserChoices(NumUsers) : \A i \in 1..NumUsers : d[i].email = i - 1}}

\* the product tables generate_products returns for catalogs of one and two
\* products, over every price; the later generators do not read the category
ProductsInputs ==
    UNION {{generate_products(n, c) :
               c \in {d \in ProductChoices(n) : \A i \in 1..n : d[i].category = 0}} :
           n \in 1..2}

\* two orders as generate_orders returns them, over every estimated total
OrdersInputs ==
    {generate_orders(EarlyUsers(2), 2, c) :
        c \in {d \in OrderChoices(2, 2) : \A i \in 1..2 : d[i].user = 0 /\ d[i].date = 0}}

\* two orders of two users, over every owner and order date
DatedOrders ==
    {generate_orders(EarlyUsers(2), 2, c) :
        c \in {d \in OrderChoices(2, 2) : \A i \in 1..2 : d[i].total = 0}}

\* a two-product catalog
TwoProducts ==
    generate_products(2, [i \in 1..2 |-> [category |-> 0, price |-> i - 1]])

\* the results of generate_order_items in which every order has one item of
\* quantity 1: the first order of product 1, the second of either product
SingleItemResults(orders) ==
    {generate_order_items(orders, TwoProducts, <<1, 1>>, c) :
        c \in {d \in ItemChoices(Len(orders), <<1, 1>>, 2) :
                  /\ \A k \in DOMAIN d : d[k].qty[1] = 0
                  /\ d[1].picks[1] = 0}}

\* no query result to print or render
NoData == [top_users |-> <<>>, product_sales |-> <<>>, category_ratings |-> <<>>]

\* main() of main.py not entered
MainIdle ==
    [pc |-> "start", stages |-> <<>>, raised |-> "none", printed |-> <<>>,
     tables |-> NoData, exited |-> FALSE, exit_status |-> 0]

\* no script run of the dashboard yet
DashIdle ==
    [after |-> "none", regenerated |-> "none", shown |-> FALSE, data |-> NoData]

\* neither main.py nor the dashboard running
AppIdle ==
    /\ main = MainIdle
    /\ dash = DashIdle

\* the process has imported data_generator and not called generate_data;
\* no application has run
SeedIdle ==
    /\ rng = SeededRng
    /\ firstFiles = NoFirstFiles
    /\ AppIdle

\* the loader and the queries not in use
LoaderIdle ==
    /\ SeedIdle
    /\ files = NoFiles
    /\ store = NoStore
    /\ loadStatus = "none"
    /\ priorStore = NoStore
    /\ firstStore = NoStore
    /\ loads = 0
    /\ result = NoResult

\* the generator not in use
GeneratorIdle ==
    /\ users_df = <<>>
    /\ products_df = <<>>
    /\ orders_df = <<>>
    /\ order_items_df = <<>>
    /\ reviews_df = <<>>
    /\ done = "start"

InitUsers ==
    /\ LoaderIdle
    /\ users_df = <<>>
    /\ products_df = <<>>
    /\ orders_df = <<>>
    /\ order_items_df = <<>>
    /\ reviews_df = <<>>
    /\ done = "start"

InitOrders ==
    /\ LoaderIdle
    /\ users_df \in UsersInputs
    /\ products_df = TwoProducts
    /\ orders_df = <<>>
    /\ order_items_df = <<>>
    /\ reviews_df = <<>>
    /\ done = "generate_products"

InitItems ==
    /\ LoaderIdle
    /\ users_df = EarlyUsers(2)
    /\ products_df \in ProductsInputs
    /\ orders_df \in OrdersInputs
    /\ order_items_df = <<>>
    /\ reviews_df = <<>>
    /\ done = "generate_orders"

InitReviews ==
    /\ LoaderIdle
    /\ users_df = EarlyUsers(2)
    /\ products_df = TwoProducts
    /\ \E o \in DatedOrders : \E r \in SingleItemResults(o) :
           /\ orders_df = r.orders
           /\ order_items_df = r.order_items
    /\ reviews_df = <<>>
    /\ done = "generate_order_items"

\* generate_users and generate_products from nothing
SpecUsers == InitUsers /\ [][GenerateUsers \/ GenerateProducts]_vars

\* generate_orders on the user tables generate_users returns
SpecOrders == InitOrders /\ [][GenerateOrders]_vars

\* generate_order_items on orders and catalogs the earlier generators return
SpecItems == InitItems /\ [][GenerateOrderItems]_vars

\* generate_reviews on orders and order items the earlier generators return
SpecReviews == InitReviews /\ [][GenerateReviews]_vars

----------------------------------------------------------------------------
(* Properties of the generated tables *)

\* the order items of one order
ItemsOf(order_id) == RowsWhere(order_items_df, "order_id", order_id)

\* the products in the order history of one user
ProductsOrderedBy(user_id) ==
    {order_items_df[k].product_id :
        k \in {k \in DOMAIN order_items_df :
                  \E o \in DOMAIN orders_df :
                      /\ orders_df[o].user_id = user_id
                      /\ orders_df[o].id = order_items_df[k].order_id}}

\* C4 as stated: every review's product is in the order history of the
\* reviewing user
C4_ReviewedProductInOwnHistory ==
    done = "generate_reviews" =>
        \A r \in DOMAIN reviews_df :
            reviews_df[r].product_id \in ProductsOrderedBy(reviews_df[r].user_id)

\* C4 amended: every review's product is in some order item (ordered by
\* someone) and the reviewing user owns at least one order; the product need
\* not be one that this user ordered
C4_ReviewedProductOrderedBySomeone ==
    done = "generate_reviews" =>
        \A r \in DOMAIN reviews_df :
            /\ \E k \in DOMAIN order_items_df :
                   order_items_df[k].product_id = reviews_df[r].product_id
            /\ \E o \in DOMAIN orders_df :
                   orders_df[o].user_id = reviews_df[r].user_id

\* a review of a product that only another user ordered
C4_Witness ==
    /\ done = "generate_reviews"
    /\ \E r \in DOMAIN reviews_df :
           reviews_df[r].product_id \notin ProductsOrderedBy(reviews_df[r].user_id)

\* C6: after generate_order_items every order's total_amount is the sum of
\* the subtotals of exactly the order items of that order, so the estimate
\* generate_orders drew is gone
C6_TotalIsSumOfItems ==
    done = "generate_order_items" =>
        \A o \in DOMAIN orders_df :
            orders_df[o].total_amount =
                SumSeq(Column(ItemsOf(orders_df[o].id), "subtotal"))

\* two orders with different totals, one of them with two order items
C6_Witness ==
    /\ done = "generate_order_items"
    /\ Len(orders_df) = 2
    /\ Len(ItemsOf(orders_df[1].id)) = 2
    /\ orders_df[1].total_amount # orders_df[2].total_amount

\* C7: every review is dated on or after every order of the reviewing user
\* and not after today
C7_ReviewAfterLatestOrder ==
    done = "generate_reviews" =>
        \A r \in DOMAIN reviews_df :
            /\ \A o \in DOMAIN orders_df :
                   orders_df[o].user_id = reviews_df[r].user_id =>
                       StrLeq(orders_df[o].order_date, reviews_df[r].review_date)
            /\ StrLeq(reviews_df[r].review_date, strftime(Today))

\* a review of a user whose second order is later than the first, dated
\* before today
C7_Witness ==
    /\ done = "generate_reviews"
    /\ \E r \in DOMAIN reviews_df :
           /\ orders_df[1].user_id = reviews_df[r].user_id
           /\ orders_df[2].user_id = reviews_df[r].user_id
           /\ orders_df[1].order_date # orders_df[2].order_date
           /\ StrLeq(orders_df[1].order_date, orders_df[2].order_date)
           /\ reviews_df[r].review_date # strftime(Today)

\* C8: every order belongs to a generated user and is dated on or after that
\* user's signup date
C8_OrderAfterSignup ==
    done = "generate_orders" =>
        \A o \in DOMAIN orders_df :
            \E u \in DOMAIN users_df :
                /\ users_df[u].id = orders_df[o].user_id
                /\ StrLeq(users_df[u].signup_date, orders_df[o].order_date)

\* orders of two users, one who signed up after day 0 and ordered later still
C8_Witness ==
    /\ done = "generate_orders"
    /\ orders_df[1].user_id # orders_df[2].user_id
    /\ \E o \in DOMAIN orders_df : \E u \in DOMAIN users_df :
           /\ users_df[u].id = orders_df[o].user_id
           /\ users_df[u].signup_date # strftime(TwoYearsAgo)
           /\ users_df[u].signup_date # orders_df[o].order_date

----------------------------------------------------------------------------
(* The loader and the queries as operations on the flat files and the store *)

\* load_to_sqlite('ecommerce.db')
LoadToSqlite ==
    /\ loads < MaxLoads
    /\ LET r == load_to_sqlite(store, files)
       IN  /\ store' = r.db
           /\ loadStatus' = IF r.raised THEN "raised" ELSE "ok"
           /\ firstStore' = IF loads = 0 THEN r.db ELSE firstStore
    /\ priorStore' = store
    /\ loads' = loads + 1
    /\ result' = NoResult
    /\ UNCHANGED <<files, genVars, seedVars, appVars>>

\* get_top_users_by_spending('ecommerce.db', limit): sqlite3.connect creates an
\* empty database file when there is none, and the query then raises
\* (no such table)
GetTopUsersBySpending ==
    /\ \E limit \in 0..MaxLimit :
           IF store.kind = "schema"
           THEN /\ \E rows \in get_top_users_by_spending(store, limit) :
                       result' = [query |-> "top_users", limit |-> limit,
                                  error |-> FALSE, rows |-> rows]
                /\ store' = store
           ELSE /\ result' = [query |-> "top_users", limit |-> limit,
                              error |-> TRUE, rows |-> <<>>]
                /\ store' = [store EXCEPT !.kind = "empty"]
    /\ UNCHANGED <<files, loadStatus, priorStore, firstStore, loads, genVars, seedVars, appVars>>

\* get_product_sales_summary('ecommerce.db')
GetProductSalesSummary ==
    /\ IF store.kind = "schema"
       THEN /\ \E rows \in get_product_sales_summary(store) :
                   result' = [query |-> "product_sales", limit |-> ProductSalesLimit,
                              error |-> FALSE, rows |-> rows]
            /\ store' = store
       ELSE /\ result' = [query |-> "product_sales", limit |-> ProductSalesLimit,
                          error |-> TRUE, rows |-> <<>>]
            /\ store' = [store EXCEPT !.kind = "empty"]
    /\ UNCHANGED <<files, loadStatus, priorStore, firstStore, loads, genVars, seedVars, appVars>>

\* get_average_rating_by_category('ecommerce.db')
GetAverageRatingByCategory ==
    /\ IF store.kind = "schema"
       THEN /\ \E rows \in get_average_rating_by_category(store) :
                   result' = [query |-> "category_ratings", error |-> FALSE, rows |-> rows]
            /\ store' = store
       ELSE /\ result' = [query |-> "category_ratings", error |-> TRUE, rows |-> <<>>]
            /\ store' = [store EXCEPT !.kind = "empty"]
    /\ UNCHANGED <<files, loadStatus, priorStore, firstStore, loads, genVars, seedVars, appVars>>

----------------------------------------------------------------------------
(* Flat files given to the loader *)

UserRow(id, email) == [id |-> id, email |-> email, signup_date |-> strftime(0)]

ProductRow(id, category, price) == [id |-> id, category |-> category, price |-> price]

OrderRow(id, user_id, total) ==
    [id |-> id, user_id |-> user_id, order_date |-> strftime(1), total_amount |-> total]

ItemRow(id, order_id, product_id, quantity, subtotal) ==
    [id |-> id, order_id |-> order_id, product_id |-> product_id,
     quantity |-> quantity, subtotal |-> subtotal]

ReviewRow(id, user_id, product_id, rating) ==
    [id |-> id, user_id |-> user_id, product_id |-> product_id, rating |-> rating,
     review_date |-> strftime(2)]

\* missing; two users; two users with one email
UsersFiles ==
    {MissingFile,
     FlatFile(<<UserRow(1, "a@example.org"), UserRow(2, "b@example.org")>>),
     FlatFile(<<UserRow(1, "a@example.org"), UserRow(2, "a@example.org")>>)}

\* missing; two products; a product with price 0
ProductsFiles ==
    {MissingFile,
     FlatFile(<<ProductRow(1, "Electronics", 1000), ProductRow(2, "Books", 2599)>>),
     FlatFile(<<ProductRow(1, "Electronics", 1000), ProductRow(2, "Books", 0)>>)}

\* missing; two orders of user 1; an order of an unknown user 9; one id twice
OrdersFiles ==
    {MissingFile,
     FlatFile(<<OrderRow(1, 1, 5000), OrderRow(2, 1, 3000)>>),
     FlatFile(<<OrderRow(1, 1, 5000), OrderRow(2, 9, 3000)>>),
     FlatFile(<<OrderRow(1, 1, 5000), OrderRow(1, 2, 3000)>>)}

\* missing; two items; an item of an unknown product 9; an item of an unknown order 9
ItemsFiles ==
    {MissingFile,
     FlatFile(<<ItemRow(1, 1, 1, 5, 5000), ItemRow(2, 2, 2, 1, 2599)>>),
     FlatFile(<<ItemRow(1, 1, 9, 5, 5000)>>),
     FlatFile(<<ItemRow(1, 9, 1, 5, 5000)>>)}

\* missing; one review; a review by an unknown user 9; a rating of 6
ReviewsFiles ==
    {MissingFile,
     FlatFile(<<ReviewRow(1, 1, 1, 5)>>),
     FlatFile(<<ReviewRow(1, 9, 1, 5)>>),
     FlatFile(<<ReviewRow(1, 1, 1, 6)>>)}

\* a complete set of flat files with other rows, loaded by an earlier run
EarlierFiles ==
    [users |-> FlatFile(<<UserRow(7, "g@example.org")>>),
     products |-> FlatFile(<<ProductRow(7, "Toys", 4200)>>),
     orders |-> FlatFile(<<OrderRow(7, 7, 4200)>>),
     order_items |-> FlatFile(<<ItemRow(7, 7, 7, 1, 4200)>>),
     reviews |-> FlatFile(<<ReviewRow(7, 7, 7, 3)>>)]

\* three users
ThreeUsers ==
    FlatFile(<<UserRow(1, "a@example.org"), UserRow(2, "b@example.org"),
               UserRow(3, "c@example.org")>>)

\* the orders flat files of up to MaxStoreOrders rows with ids 1, 2, ...,
\* each order of user 1, 2, 3 or of the unknown user 9
QueryOrdersFiles ==
    UNION {{FlatFile([i \in 1..n |-> OrderRow(i, c[i].user, c[i].total)]) :
               c \in [1..n -> [user : {1, 2, 3, 9}, total : {3000, 5000}]]} :
           n \in 0..MaxStoreOrders}

\* flat files that may fail to load, and no store or the store of an earlier run
InitLoad ==
    /\ GeneratorIdle
    /\ SeedIdle
    /\ files \in [users : UsersFiles, products : ProductsFiles, orders : OrdersFiles,
                  order_items : ItemsFiles, reviews : ReviewsFiles]
    /\ store \in {NoStore, load_to_sqlite(NoStore, EarlierFiles).db}
    /\ loadStatus = "none"
    /\ priorStore = NoStore
    /\ firstStore = NoStore
    /\ loads = 0
    /\ result = NoResult

\* flat files that load, with any orders
InitQuery ==
    /\ GeneratorIdle
    /\ SeedIdle
    /\ \E o \in QueryOrdersFiles :
           files = [users |-> ThreeUsers,
                    products |-> FlatFile(<<ProductRow(1, "Electronics", 1000)>>),
                    orders |-> o,
                    order_items |-> FlatFile(<<>>),
                    reviews |-> FlatFile(<<>>)]
    /\ store = NoStore
    /\ loadStatus = "none"
    /\ priorStore = NoStore
    /\ firstStore = NoStore
    /\ loads = 0
    /\ result = NoResult

\* three products, two of them of one category
ThreeProducts ==
    FlatFile(<<ProductRow(1, "Electronics", 1000), ProductRow(2, "Books", 2000),
               ProductRow(3, "Electronics", 2599)>>)

\* the order items flat files of up to MaxStoreItems rows with ids 1, 2, ...,
\* each of order 1 and of product 1, 2, 3 or of the unknown product 9
SalesItemsFiles ==
    UNION {{FlatFile([i \in 1..n |-> ItemRow(i, 1, c[i].product, c[i].quantity,
                                             c[i].quantity * 1000)]) :
               c \in [1..n -> [product : {1, 2, 3, 9}, quantity : {1, 2}]]} :
           n \in 0..MaxStoreItems}

\* no review; reviews of products of two categories; reviews whose average
\* has more than two decimals
SalesReviewsFiles ==
    {FlatFile(<<>>),
     FlatFile(<<ReviewRow(1, 1, 1, 5), ReviewRow(2, 1, 2, 4), ReviewRow(3, 1, 3, 2)>>),
     FlatFile(<<ReviewRow(1, 1, 1, 5), ReviewRow(2, 1, 1, 4), ReviewRow(3, 1, 3, 4)>>)}

\* one product more than get_product_sales_summary returns, each ordered
\* once, of increasing revenue
ManyProductsFiles ==
    [users |-> ThreeUsers,
     products |-> FlatFile([i \in 1..(ProductSalesLimit + 1) |->
                               ProductRow(i, "Books", 1000)]),
     orders |-> FlatFile(<<OrderRow(1, 1, 5000)>>),
     order_items |-> FlatFile([i \in 1..(ProductSalesLimit + 1) |->
                                  ItemRow(i, 1, i, i, i * 1000)]),
     reviews |-> FlatFile(<<>>)]

\* flat files that load, with any order items
InitSales ==
    /\ GeneratorIdle
    /\ SeedIdle
    /\ \/ \E oi \in SalesItemsFiles, r \in SalesReviewsFiles :
              files = [users |-> ThreeUsers,
                       products |-> ThreeProducts,
                       orders |-> FlatFile(<<OrderRow(1, 1, 5000)>>),
                       order_items |-> oi,
                       reviews |-> r]
       \/ files = ManyProductsFiles
    /\ store = NoStore
    /\ loadStatus = "none"
    /\ priorStore = NoStore
    /\ firstStore = NoStore
    /\ loads = 0
    /\ result = NoResult

InitSeed ==
    /\ GeneratorIdle
    /\ LoaderIdle

\* generate_data called again and again, in one process or in new ones
SpecSeed == InitSeed /\ [][ImportDataGenerator \/ GenerateData]_vars

NextStore ==
    \/ LoadToSqlite
    \/ GetTopUsersBySpending
    \/ GetProductSalesSummary
    \/ GetAverageRatingByCategory

\* load_to_sqlite and the queries on flat files that may fail to load
SpecLoad == InitLoad /\ [][NextStore]_vars

\* load_to_sqlite and the queries on flat files with any orders
SpecQuery == InitQuery /\ [][NextStore]_vars

\* load_to_sqlite and the queries on flat files with any order items
SpecSales == InitSales /\ [][NextStore]_vars

----------------------------------------------------------------------------
(* main.py: the batch pipeline.  main() calls generate_data, load_to_sqlite  *)
(* and run_queries inside one try block; each call is one step of the        *)
(* process, and the except clauses end it.                                   *)

\* limit=5 of the get_top_users_by_spending call of run_queries
RunQueriesLimit == 5

\* the raw draws of a generate_data call in which every user signs up, every
\* order is placed and every review is written on the first day of its
\* window, every order has one item of quantity 1 and all reviews are of one
\* product; the emails, the owners of the orders and the products ordered and
\* reviewed are open
PipelineChoices ==
    {[users |-> [i \in 1..NumUsers |-> [signup |-> 0, email |-> e[i]]],
      products |-> [i \in 1..NumProducts |-> [category |-> i - 1, price |-> i - 1]],
      orders |-> [i \in 1..NumOrders |-> [user |-> u[i], date |-> 0, total |-> 0]],
      order_items |-> [k \in 1..NumOrders |->
                          [n |-> 0,
                           picks |-> [j \in 1..MaxItems |-> p[k]],
                           qty |-> [j \in 1..MaxItems |-> 0]]],
      reviews |-> [i \in 1..NumReviews |->
                      [user |-> i - 1, product |-> rp, date |-> 0, rating |-> i - 1]]] :
        e \in [1..NumUsers -> 0..(Len(Emails) - 1)],
        u \in [1..NumOrders -> 0..(NumUsers - 1)],
        p \in [1..NumOrders -> 0..(NumProducts - 1)],
        rp \in 0..(NumProducts - 1)}

\* an except clause that ends the process with status 0
ExceptExitZero(m, stage) ==
    [m EXCEPT !.pc = "exited", !.raised = stage,
              !.printed = Append(@, "Error"),
              !.exited = TRUE, !.exit_status = 0]

\* except FileNotFoundError / except Exception: print the error, sys.exit(1)
Except(m, stage) ==
    [m EXCEPT !.pc = "exited", !.raised = stage,
              !.printed = Append(@, "Error"),
              !.exited = TRUE, !.exit_status = 1]

\* a stage of main() entered
Enter(m, stage) == [m EXCEPT !.stages = Append(@, stage)]

\* the three queries of run_queries on a database with the schema
run_queries(db) ==
    {[top_users |-> a, product_sales |-> b, category_ratings |-> c] :
        a \in get_top_users_by_spending(db, RunQueriesLimit),
        b \in get_product_sales_summary(db),
        c \in get_average_rating_by_category(db)}

\* os.makedirs('data', exist_ok=True) and generate_data(): the flat files are
\* written, or the directory cannot be created (OSError)
MainGenerate ==
    /\ main.pc = "start"
    /\ \/ /\ \E c \in PipelineChoices : files' = generate_data(c)
          /\ rng' = KeepRng(rng)
          /\ firstFiles' = IF firstFiles.written THEN firstFiles
                            ELSE [written |-> TRUE, files |-> files']
          /\ main' = [Enter(main, "generate") EXCEPT !.pc = "generated"]
       \/ /\ main' = Except(Enter(main, "generate"), "generate")
          /\ UNCHANGED <<files, seedVars>>
    /\ UNCHANGED <<store, loadStatus, priorStore, firstStore, loads, result, genVars, dash>>

\* load_to_sqlite('ecommerce.db')
MainLoad ==
    /\ main.pc = "generated"
    /\ LET r == load_to_sqlite(store, files)
       IN  /\ store' = r.db
           /\ loadStatus' = IF r.raised THEN "raised" ELSE "ok"
           /\ firstStore' = IF loads = 0 THEN r.db ELSE firstStore
           /\ main' = IF r.raised THEN Except(Enter(main, "load"), "load")
                      ELSE [Enter(main, "load") EXCEPT !.pc = "loaded"]
    /\ priorStore' = store
    /\ loads' = loads + 1
    /\ result' = NoResult
    /\ UNCHANGED <<files, genVars, seedVars, dash>>

\* run_queries('ecommerce.db') and the end of the try block: the three
\* results and the success message are printed, or reading the database
\* raises (sqlite3.OperationalError) or printing does (UnicodeEncodeError)
MainRunQueries ==
    /\ main.pc = "loaded"
    /\ \/ \E d \in run_queries(store) :
              /\ main' = [Enter(main, "query") EXCEPT
                             !.pc = "exited",
                             !.tables = d,
                             !.printed = Append(@, "Pipeline completed successfully!"),
                             !.exited = TRUE, !.exit_status = 0]
              /\ result' = [query |-> "category_ratings", error |-> FALSE,
                            rows |-> d.category_ratings]
       \/ /\ main' = Except(Enter(main, "query"), "query")
          /\ result' = result
    /\ UNCHANGED <<files, store, loadStatus, priorStore, firstStore, loads,
                   genVars, seedVars, dash>>

\* no flat files and no store, or those of an earlier run
InitMain ==
    /\ GeneratorIdle
    /\ SeedIdle
    /\ \/ files = NoFiles /\ store = NoStore
       \/ files = EarlierFiles /\ store = load_to_sqlite(NoStore, EarlierFiles).db
    /\ loadStatus = "none"
    /\ priorStore = NoStore
    /\ firstStore = NoStore
    /\ loads = 0
    /\ result = NoResult

\* one run of python main.py
SpecMain == InitMain /\ [][MainGenerate \/ MainLoad \/ MainRunQueries]_vars

----------------------------------------------------------------------------
(* dashboard.py: every interaction runs the script main() from the top;     *)
(* st.rerun() ends the run and starts the next one at once, so a button      *)
(* handler and the run it leads to are one step.                             *)

\* limit=10 of the get_top_users_by_spending call of load_data
DashboardLimit == 10

\* the tables of the store
Tables == {"users", "products", "orders", "order_items", "reviews"}

\* load_data(): st.error and st.stop() when there is no database file or a
\* query raises (a file without the tables), otherwise the three results
load_data(db) ==
    IF ~Exists(db) \/ db.kind # "schema" THEN {[shown |-> FALSE, data |-> NoData]}
    ELSE {[shown |-> TRUE,
           data |-> [top_users |-> a, product_sales |-> b, category_ratings |-> c]] :
             a \in get_top_users_by_spending(db, DashboardLimit),
             b \in get_product_sales_summary(db),
             c \in get_average_rating_by_category(db)}

\* what a script run renders below the sidebar: the tabs with the results
\* load_data returned, or nothing after st.stop()
Render(after, regenerated, db) ==
    {[after |-> after, regenerated |-> regenerated, shown |-> o.shown, data |-> o.data] :
        o \in load_data(db)}

\* the generator states of a process after k generate_data calls
RECURSIVE RngAfterCalls(_)
RngAfterCalls(k) ==
    IF k = 0 THEN SeededRng
    ELSE LET r == RngAfterCalls(k - 1)
         IN  [fake |-> RngAfter(r.fake, FakeDraws), random |-> RngAfter(r.random, RandomDraws)]

\* the generator states of a process after up to MaxEarlierCalls calls
RegeneratedRng == {RngAfterCalls(k) : k \in 0..MaxEarlierCalls}

\* streamlit run dashboard.py: the imports, then the first script run
StartDashboard ==
    /\ rng' = SeededRng
    /\ dash' \in Render("start", "none", store)
    /\ UNCHANGED <<firstFiles, loadVars, genVars, main>>

\* the refresh button running load_to_sqlite before st.rerun()
RefreshDataReloading ==
    /\ loads < MaxLoads
    /\ LET r == load_to_sqlite(store, files)
       IN  /\ store' = r.db
           /\ loadStatus' = IF r.raised THEN "raised" ELSE "ok"
           /\ firstStore' = IF loads = 0 THEN r.db ELSE firstStore
    /\ dash' \in Render("refresh", "none", store')
    /\ priorStore' = store
    /\ loads' = loads + 1
    /\ UNCHANGED <<files, result, genVars, seedVars, main>>

\* the "Refresh Data" button: st.rerun(), and the script run that follows
RefreshData ==
    /\ dash' \in Render("refresh", "none", store)
    /\ UNCHANGED <<loadVars, genVars, seedVars, main>>

\* the "Regenerate All Data" button: regenerate_all_data() calls
\* generate_data() and load_to_sqlite('ecommerce.db') and returns False when
\* one of them raised; on True st.rerun() starts a new script run, on False
\* the run goes on after st.error; either way load_data() comes next
RegenerateAllData ==
    /\ loads < MaxLoads
    /\ files' = generate_data(SeededChoices(rng))
    /\ firstFiles' = IF firstFiles.written THEN firstFiles
                      ELSE [written |-> TRUE, files |-> files']
    /\ LET r == load_to_sqlite(store, files')
       IN  /\ store' = r.db
           /\ loadStatus' = IF r.raised THEN "raised" ELSE "ok"
           /\ firstStore' = IF loads = 0 THEN r.db ELSE firstStore
    /\ dash' \in Render("regenerate", IF loadStatus' = "ok" THEN "ok" ELSE "failed", store')
    /\ rng' = KeepRng(rng)
    /\ priorStore' = store
    /\ loads' = loads + 1
    /\ result' = NoResult
    /\ UNCHANGED <<genVars, main>>

\* a dashboard process that has regenerated up to MaxEarlierCalls times, on no flat
\* files and no store or on those of an earlier run
InitDash ==
    /\ GeneratorIdle
    /\ AppIdle
    /\ rng \in RegeneratedRng
    /\ firstFiles = NoFirstFiles
    /\ \/ files = NoFiles /\ store = NoStore
       \/ files = EarlierFiles /\ store = load_to_sqlite(NoStore, EarlierFiles).db
    /\ loadStatus = "none"
    /\ priorStore = NoStore
    /\ firstStore = NoStore
    /\ loads = 0
    /\ result = NoResult

\* the dashboard, and the queries called from outside it
NextDash ==
    \/ StartDashboard
    \/ RefreshData
    \/ RegenerateAllData
    \/ GetTopUsersBySpending
    \/ GetProductSalesSummary
    \/ GetAverageRatingByCategory

SpecDash == InitDash /\ [][NextDash]_vars

----------------------------------------------------------------------------
(* Properties of the loader *)

\* a store in which all five tables of one set of flat files are loaded
Complete(db) == db = load_to_sqlite(NoStore, EarlierFiles).db

\* the rows of a table
RowSet(rows) == {rows[i] : i \in DOMAIN rows}

\* C1 as stated: after a load_to_sqlite call that raised, the store is the
\* complete store from before the call, or there is no store
C1_FailedLoadLeavesPriorOrNone ==
    loadStatus = "raised" =>
        \/ store = priorStore /\ Complete(priorStore)
        \/ ~Exists(store)

\* C2 as stated: a load that did not raise leaves no reference to a row that
\* is not in the store
C2_NoDanglingReferenceAfterLoad ==
    loadStatus = "ok" =>
        \A k \in 3..5 : ReferencesResolve(store, LoadOrder[k], store[LoadOrder[k]])

\* C3: a second load_to_sqlite call on the same flat files leaves the store
\* the first call left, and after any call every row of the store is a row
\* of the flat file of its table
C3_LoadIsIdempotent ==
    /\ loads >= 2 => store = firstStore
    /\ loads >= 1 =>
           \A k \in DOMAIN LoadOrder :
               RowSet(store[LoadOrder[k]]) \subseteq RowSet(files[LoadOrder[k]].rows)

\* a second call that loaded all five tables over the store the first call left
C3_Witness ==
    /\ loads = 2
    /\ loadStatus = "ok"
    /\ store.reviews # <<>>
    /\ priorStore = firstStore

\* the users with at least one order in the store
UsersWithOrders(db) ==
    {u \in DOMAIN db.users :
        \E o \in DOMAIN db.orders : db.orders[o].user_id = db.users[u].id}

\* the sum of total_amount over the first k orders of the store that belong
\* to the user
RECURSIVE SpentBy(_, _, _)
SpentBy(db, user_id, k) ==
    IF k = 0 THEN 0
    ELSE SpentBy(db, user_id, k - 1)
         + (IF db.orders[k].user_id = user_id THEN db.orders[k].total_amount ELSE 0)

\* C5 as stated: every generate_data call writes the flat files the first
\* call wrote (all calls run under the seed 42)
C5_SameSeedSameFiles ==
    firstFiles.written => files = firstFiles.files

\* C9 as stated: the users table generate_users returns passes the PRIMARY
\* KEY and UNIQUE(email) constraints of the users table
C9_GeneratedUsersAreUnique ==
    done # "start" =>
        /\ Unique(users_df, "id")
        /\ Unique(users_df, "email")
        /\ ConstraintsHold("users", users_df)

\* C10: get_top_users_by_spending(limit) returns one row per user with at
\* least one order, with that user's number of orders and summed total, in
\* descending order of total_spent, cut to the limit rows that spent most;
\* one user with orders of 50.00 and 30.00 gives total_orders 2, total_spent 80.00
C10_TopUsersBySpending ==
    (result.query = "top_users" /\ ~result.error) =>
        LET rows == result.rows
            spent(u) == SpentBy(store, store.users[u].id, Len(store.orders))
        IN  /\ \A i \in DOMAIN rows :
                   \E u \in UsersWithOrders(store) :
                       /\ rows[i].email = store.users[u].email
                       /\ rows[i].total_orders =
                              Cardinality({o \in DOMAIN store.orders :
                                  store.orders[o].user_id = store.users[u].id})
                       /\ rows[i].total_spent = spent(u)
            /\ \A i, j \in DOMAIN rows : rows[i].email = rows[j].email => i = j
            /\ \A i, j \in DOMAIN rows :
                   i < j => rows[i].total_spent >= rows[j].total_spent
            /\ Len(rows) = Min(result.limit, Cardinality(UsersWithOrders(store)))
            /\ \A u \in UsersWithOrders(store) :
                   (\A i \in DOMAIN rows : rows[i].email # store.users[u].email) =>
                       \A i \in DOMAIN rows : rows[i].total_spent >= spent(u)
            /\ (/\ store.orders = <<OrderRow(1, 1, 5000), OrderRow(2, 1, 3000)>>
                /\ result.limit >= 1) =>
                   rows = <<[email |-> "a@example.org", total_orders |-> 2,
                             total_spent |-> 8000]>>

\* three users with orders, one of them without a row among the two returned,
\* and the two returned rows in strictly descending order
C10_Witness ==
    /\ result.query = "top_users"
    /\ ~result.error
    /\ result.limit = 2
    /\ Cardinality(UsersWithOrders(store)) = 3
    /\ Len(result.rows) = 2
    /\ result.rows[1].total_spent > result.rows[2].total_spent

----------------------------------------------------------------------------
(* Further properties of the generated tables *)

\* the price of the product with this id in the catalog
PriceOf(product_id) == RowsWhere(products_df, "id", product_id)[1].price

C17_ReviewerHasOrders ==
    done = "generate_reviews" =>
        \A r \in DOMAIN reviews_df :
            LET user_orders == RowsWhere(orders_df, "user_id", reviews_df[r].user_id)
            IN  /\ user_orders # <<>>
                /\ strptime(reviews_df[r].review_date) >= LatestOrderDate(user_orders)
                /\ strptime(reviews_df[r].review_date) <= Today

\* reviews generated while one of the users owns no order, the orders being
\* later than the start of the fallback window
C17_Witness ==
    /\ done = "generate_reviews"
    /\ \E u \in DOMAIN users_df : RowsWhere(orders_df, "user_id", users_df[u].id) = <<>>
    /\ \A o \in DOMAIN orders_df : strptime(orders_df[o].order_date) > OneYearAgo

----------------------------------------------------------------------------
(* Properties of the product sales query *)

\* the products of the store with at least one order item
ProductsWithItems ==
    {store.products[p].id : p \in {q \in DOMAIN store.products :
        \E i \in DOMAIN store.order_items :
            store.order_items[i].product_id = store.products[q].id}}

\* the sum of subtotal over the first k order items of the store that are of
\* the product
RECURSIVE RevenueOf(_, _)
RevenueOf(product_id, k) ==
    IF k = 0 THEN 0
    ELSE RevenueOf(product_id, k - 1) +
         (IF store.order_items[k].product_id = product_id
          THEN store.order_items[k].subtotal ELSE 0)

\* a result of get_product_sales_summary that did not raise
SalesReturned == result.query = "product_sales" /\ ~result.error

\* at most 10 rows, one per product with at least one order item
SalesRowsPerProduct ==
    /\ Len(result.rows) <= 10
    /\ \A i, j \in DOMAIN result.rows :
           result.rows[i].product = result.rows[j].product => i = j
    /\ \A i \in DOMAIN result.rows : result.rows[i].product \in ProductsWithItems

\* C11 as stated: get_product_sales_summary returns at most 10 rows, one per
\* product with at least one order item, and no two consecutive rows have
\* equal total_revenue: the rows are strictly descending by total_revenue
C11_StrictlyDescendingRevenue ==
    SalesReturned =>
        /\ SalesRowsPerProduct
        /\ \A i \in 1..(Len(result.rows) - 1) :
               result.rows[i].total_revenue > result.rows[i + 1].total_revenue

\* C11 amended: get_product_sales_summary returns min(10, number of products
\* with an order item) rows, one per such product, each with the sum of the
\* subtotals of the product's order items as total_revenue; no row has a
\* larger total_revenue than the row before it (equal values may follow each
\* other) and no product left out has a larger total_revenue than a row
C11_DescendingRevenue ==
    SalesReturned =>
        /\ SalesRowsPerProduct
        /\ Len(result.rows) = Min(10, Cardinality(ProductsWithItems))
        /\ \A i \in DOMAIN result.rows :
               result.rows[i].total_revenue =
                   RevenueOf(result.rows[i].product, Len(store.order_items))
        /\ \A i \in 1..(Len(result.rows) - 1) :
               result.rows[i].total_revenue >= result.rows[i + 1].total_revenue
        /\ \A p \in ProductsWithItems :
               (\A i \in DOMAIN result.rows : result.rows[i].product # p) =>
                   \A i \in DOMAIN result.rows :
                       result.rows[i].total_revenue >= RevenueOf(p, Len(store.order_items))

\* a result of two rows of equal total_revenue above a third row
C11_Witness ==
    /\ SalesReturned
    /\ Len(result.rows) = 3
    /\ result.rows[1].total_revenue = result.rows[2].total_revenue
    /\ result.rows[2].total_revenue > result.rows[3].total_revenue

\* a result of 10 rows on a store where 11 products have order items
C11_WitnessLimit ==
    /\ SalesReturned
    /\ Len(result.rows) = 10
    /\ Cardinality(ProductsWithItems) = 11

----------------------------------------------------------------------------
(* Properties of the batch pipeline *)

\* whether s is the first k stages of generate, load, query
StagesInOrder(s) ==
    /\ Len(s) <= 3
    /\ \A i \in DOMAIN s : s[i] = <<"generate", "load", "query">>[i]

\* C13: main() enters its stages in the order generate, load, query; once a
\* stage has raised no later stage is entered, an error message is printed
\* and the process exits with status 1; the success message and the exit
\* with status 0 come only after all three stages returned
C13_StagesInOrderAndExitStatus ==
    /\ StagesInOrder(main.stages)
    /\ main.raised # "none" =>
           /\ main.stages[Len(main.stages)] = main.raised
           /\ main.exited /\ main.exit_status # 0
           /\ main.printed # <<>> /\ main.printed[Len(main.printed)] = "Error"
           /\ \A i \in DOMAIN main.printed :
                  main.printed[i] # "Pipeline completed successfully!"
    /\ (main.exited /\ main.exit_status = 0) =>
           /\ main.raised = "none"
           /\ main.stages = <<"generate", "load", "query">>
           /\ loadStatus = "ok"
    /\ (\E i \in DOMAIN main.printed :
            main.printed[i] = "Pipeline completed successfully!") =>
           /\ main.raised = "none"
           /\ main.stages = <<"generate", "load", "query">>
           /\ main.exited /\ main.exit_status = 0
    /\ loads = (IF \E i \in DOMAIN main.stages : main.stages[i] = "load" THEN 1 ELSE 0)

\* load_to_sqlite raised on freshly generated flat files: run_queries was not
\* called and the process exited with status 1
C13_Witness ==
    /\ main.raised = "load"
    /\ main.stages = <<"generate", "load">>
    /\ loadStatus = "raised"
    /\ main.exited /\ main.exit_status = 1
    /\ result = NoResult

\* C14: after generate_data and a load_to_sqlite that did not raise, every
\* orders.user_id is the id of a row of users, every order_items.product_id
\* the id of a row of products and every order_items.order_id the id of a
\* row of orders
C14_PipelineReferencesResolve ==
    (main.pc \in {"loaded", "exited"} /\ loadStatus = "ok") =>
        /\ \A i \in DOMAIN store.orders : HasId(store.users, store.orders[i].user_id)
        /\ \A i \in DOMAIN store.order_items :
               /\ HasId(store.products, store.order_items[i].product_id)
               /\ HasId(store.orders, store.order_items[i].order_id)

\* a pipeline run that loaded orders of two users and order items of two products
C14_Witness ==
    /\ main.pc = "exited" /\ main.exit_status = 0
    /\ loadStatus = "ok"
    /\ Cardinality({store.orders[i].user_id : i \in DOMAIN store.orders}) = 2
    /\ Cardinality({store.order_items[i].product_id : i \in DOMAIN store.order_items}) = 2
    /\ store.reviews # <<>>

----------------------------------------------------------------------------
(* Properties of the dashboard *)

\* a store in which all five tables of the flat files are loaded
LoadedFrom(db, csvs) ==
    /\ db.kind = "schema"
    /\ \A t \in Tables : csvs[t].exists /\ db[t] = csvs[t].rows

\* C12 as stated: the results a script run renders after the regenerate
\* button come from a regeneration that ran to completion, that is from the
\* store with all five tables of the new flat files loaded
C12_ResultsAfterRegenerateAreFresh ==
    (dash.after = "regenerate" /\ dash.shown) =>
        /\ dash.regenerated = "ok"
        /\ loadStatus = "ok"
        /\ LoadedFrom(store, files)

\* results rendered after a regeneration that succeeded
C12_FreshResultsShown ==
    /\ dash.after = "regenerate" /\ dash.shown
    /\ dash.regenerated = "ok"
    /\ LoadedFrom(store, files)
    /\ dash.data.top_users # <<>>

\* the rows of the five tables of the store
StoreRows(db) == [t \in Tables |-> db[t]]

\* the refresh action or one of the three queries
ReadAction ==
    \/ RefreshData
    \/ GetTopUsersBySpending
    \/ GetProductSalesSummary
    \/ GetAverageRatingByCategory

\* C15: the refresh action and the three queries leave the rows of the store
\* and the five flat files unchanged (an existing database file is left as it
\* is altogether) and call neither the generator nor the loader
C15_ReadsChangeNothing ==
    [][ReadAction =>
          /\ StoreRows(store') = StoreRows(store)
          /\ Exists(store) => store' = store
          /\ files' = files
          /\ rng' = rng /\ firstFiles' = firstFiles
          /\ loads' = loads /\ loadStatus' = loadStatus
          /\ UNCHANGED genVars]_vars

\* results rendered by a refresh on a store with rows
C15_Witness ==
    /\ dash.after = "refresh" /\ dash.shown
    /\ dash.data.top_users # <<>>
    /\ store.users # <<>>

====
